---- MODULE Spec2Model ----
(***************************************************************************)
(* Model of src/main.py: the /api/process-document endpoint.               *)
(*                                                                         *)
(* One asyncio event loop (a FIFO queue of ready callbacks, one callback   *)
(* running at a time), one ThreadPoolExecutor of 4 workers, and per        *)
(* request the process_document task with its two child tasks              *)
(* (process_invoice, extract_first_page) joined by asyncio.gather.         *)
(*                                                                         *)
(* Encodings: Python None is the empty sequence <<>>, a present value v    *)
(* is <<v>>; hasattr(obj, a) is  a \in DOMAIN obj;  a float confidence c   *)
(* is the integer 100*c.                                                   *)
(***************************************************************************)
EXTENDS Integers, Sequences, FiniteSets, TLC

VARIABLES
    scenario,     \* the workload of the run: who submits, and what the collaborators may do
    req,          \* per request: the multipart form as received (<<>> before arrival)
    pc,           \* per request: position of the process_document task
    ready,        \* the event loop's FIFO queue of ready callbacks
    loopBusy,     \* request whose synchronous poller.result() holds the loop thread (0: none)
    mdict,        \* per request: metadata_dict (line 192)
    pi,           \* per request: state of the process_invoice task
    piResult,     \* per request: what process_invoice returned or raised
    efp,          \* per request: state of the extract_first_page task
    efpResult,    \* per request: what extract_first_page returned or raised
    poolQueue,    \* executor: submitted _extract jobs not yet taken by a worker
    poolRunning,  \* executor: _extract jobs executing in a worker thread
    jobResult,    \* per request: outcome of _extract held by the executor future
    renderMode,   \* per request: how the rendering library behaved for its job
    nfinished,    \* per request: gather's count of finished children
    outer,        \* per request: gather's outer future
    status,       \* per request: HTTP status produced (0: none yet)
    envelope,     \* per request: response_data (<<>>: never constructed)
    detail,       \* per request: detail of the HTTP error
    rmPc,         \* field remap: position inside process_invoice
    rmDocsLeft,   \* field remap: documents of result.documents not yet iterated
    rmDoc,        \* field remap: loop variable `document`
    rmData,       \* field remap: document_data
    rmSeen,       \* field remap: native mapped fields met so far in iterated documents
    rmLast,       \* field remap: per native mapped field, its field in the last iterated document that has it
    rmExc         \* field remap: exception raised inside the try block

vars == <<scenario, req, pc, ready, loopBusy, mdict, pi, piResult, efp, efpResult,
          poolQueue, poolRunning, jobResult, renderMode, nfinished, outer,
          status, envelope, detail,
          rmPc, rmDocsLeft, rmDoc, rmData, rmSeen, rmLast, rmExc>>

loopVars == <<scenario, req, pc, ready, loopBusy, mdict, pi, piResult, efp, efpResult,
              poolQueue, poolRunning, jobResult, renderMode, nfinished, outer,
              status, envelope, detail>>

remapVars == <<rmPc, rmDocsLeft, rmDoc, rmData, rmSeen, rmLast, rmExc>>

----------------------------------------------------------------------------
(* Program constants *)

MaxWorkers == 4       \* ThreadPoolExecutor(max_workers=4)
ZoomFactor == 2       \* zoom_factor = 2.0

(* Bounds *)

NumRequests == 2      \* requests that may be in flight together
MaxDocs == 2          \* documents in one recognition result

Clients == 1..NumRequests

\* request slots: enough for the clients and for one job more than the executor has workers
Requests == Clients \cup (1..(MaxWorkers + 1))

None == <<>>
Some(v) == <<v>>

----------------------------------------------------------------------------
(* json.loads (line 192), restricted to the token alphabet                  *)
(*   { } [ ] , : 1 null "a" "b"                                             *)
(* A metadata string is the sequence of its tokens separated by blanks.     *)
(* Parsed forms: None is [null |-> TRUE], an int [num |-> n], a str         *)
(* [str |-> s], a list [arr |-> <<..>>], a dict [obj |-> key :> value].     *)

StrLit(t) == CASE t = "\"a\"" -> "a" [] t = "\"b\"" -> "b"
IsStrTok(t) == t \in {"\"a\"", "\"b\""}

Tok(toks, i) == IF i <= Len(toks) THEN toks[i] ELSE "<end>"

JsonFail(msg) == [ok |-> FALSE, err |-> msg]
JsonOk(v, n) == [ok |-> TRUE, val |-> v, next |-> n]

RECURSIVE ParseValue(_, _)
RECURSIVE ParseElems(_, _, _)
RECURSIVE ParseMembers(_, _, _)

ParseValue(toks, i) ==
    LET t == Tok(toks, i) IN
    CASE t = "null" -> JsonOk([null |-> TRUE], i + 1)
      [] t = "1"    -> JsonOk([num |-> 1], i + 1)
      [] IsStrTok(t) -> JsonOk([str |-> StrLit(t)], i + 1)
      [] t = "["    -> IF Tok(toks, i + 1) = "]"
                       THEN JsonOk([arr |-> <<>>], i + 2)
                       ELSE ParseElems(toks, i + 1, <<>>)
      [] t = "{"    -> IF Tok(toks, i + 1) = "}"
                       THEN JsonOk([obj |-> <<>>], i + 2)
                       ELSE ParseMembers(toks, i + 1, <<>>)
      [] OTHER      -> JsonFail("Expecting value")

ParseElems(toks, i, acc) ==
    LET e == ParseValue(toks, i) IN
    IF ~e.ok THEN e
    ELSE LET acc2 == Append(acc, e.val)
             t == Tok(toks, e.next) IN
         IF t = "]" THEN JsonOk([arr |-> acc2], e.next + 1)
         ELSE IF t = "," THEN ParseElems(toks, e.next + 1, acc2)
         ELSE JsonFail("Expecting ',' delimiter")

ParseMembers(toks, i, acc) ==
    LET k == Tok(toks, i) IN
    IF ~IsStrTok(k)
    THEN JsonFail("Expecting property name enclosed in double quotes")
    ELSE IF Tok(toks, i + 1) # ":" THEN JsonFail("Expecting ':' delimiter")
    ELSE LET e == ParseValue(toks, i + 2) IN
         IF ~e.ok THEN e
         ELSE LET key == StrLit(k)
                  acc2 == [x \in (DOMAIN acc) \cup {key} |->
                              IF x = key THEN e.val ELSE acc[x]]
                  t == Tok(toks, e.next) IN
              IF t = "}" THEN JsonOk([obj |-> acc2], e.next + 1)
              ELSE IF t = "," THEN ParseMembers(toks, e.next + 1, acc2)
              ELSE JsonFail("Expecting ',' delimiter")

\* json.loads made to fall back to an empty dict on a decoding error
JsonLoads_Fallback(toks) ==
    LET p == ParseValue(toks, 1) IN
    IF p.ok /\ p.next = Len(toks) + 1 THEN [ok |-> TRUE, val |-> p.val]
    ELSE [ok |-> TRUE, val |-> [obj |-> <<>>]]

JsonLoads(toks) ==
    LET p == ParseValue(toks, 1) IN
    IF ~p.ok THEN JsonFail(p.err)
    ELSE IF p.next # Len(toks) + 1 THEN JsonFail("Extra data")
    ELSE [ok |-> TRUE, val |-> p.val]

(* Metadata strings submitted by callers. *)
ValidMetadata == { <<"{", "}">>,
                   <<"{", "\"a\"", ":", "[", "1", ",", "null", "]", "}">> }
InvalidMetadata == { <<"{", "\"a\"">> }
MetadataInputs == ValidMetadata \cup InvalidMetadata

----------------------------------------------------------------------------
(* Exceptions: str(e) as used in lines 179 and 225.  A plain exception      *)
(* prints its message; starlette's HTTPException prints                     *)
(* "<status_code>: <detail>".                                               *)

PlainExc(type, msg) == [type |-> type, msg |-> msg]
HTTPException(code, text) == [type |-> "HTTPException", status_code |-> code, detail |-> text]

Str(e) == IF e.type = "HTTPException"
          THEN ToString(e.status_code) \o ": " \o e.detail
          ELSE e.msg

----------------------------------------------------------------------------
(* _extract (lines 61-109): the job run in a worker thread.                 *)

RenderModes == {"ok", "import_error", "open_raises", "zero_pages", "raster_raises"}
FailingRenderModes == RenderModes \ {"ok"}

Files == {"pdf-A"}

B64Png(file) == [b64 |-> [png |-> [doc |-> file, page |-> 0, zoom |-> ZoomFactor]]]

\* the try block, lines 63-94: what it returns or which exception leaves it
ExtractTry(mode, file) ==
    IF mode = "import_error" THEN [exc |-> Some(PlainExc("ImportError", "No module named 'fitz'")), ret |-> None]
    ELSE IF mode = "open_raises" THEN [exc |-> Some(PlainExc("FileDataError", "cannot open broken document")), ret |-> None]
    ELSE IF mode = "zero_pages" THEN [exc |-> None, ret |-> None]
    ELSE IF mode = "raster_raises" THEN [exc |-> Some(PlainExc("RuntimeError", "cannot render page")), ret |-> None]
    ELSE [exc |-> None, ret |-> Some(B64Png(file))]

\* _extract without its exception handlers
Extract_NoHandlers(mode, file) == ExtractTry(mode, file)

\* the handlers, lines 96-109: both return None
Extract(mode, file) ==
    LET t == ExtractTry(mode, file) IN
    IF t.exc = None THEN t
    ELSE IF t.exc[1].type = "ImportError" THEN [exc |-> None, ret |-> None]
    ELSE [exc |-> None, ret |-> None]

----------------------------------------------------------------------------
(* process_invoice (lines 113-179): the field remap.                        *)

\* field_mapping with the constant entry mapped from a native field too
FieldMapping_MapsDocumentType ==
    << <<"InvoiceId", "PV Number">>,
       <<"InvoiceDate", "Date Prepared">>,
       <<"RemittanceAddressRecipient", "Supplier or Company">>,
       <<"Document Type", "Document Type">> >>

\* field_mapping, lines 125-129, in iteration order
FieldMapping == << <<"InvoiceId", "PV Number">>,
                   <<"InvoiceDate", "Date Prepared">>,
                   <<"RemittanceAddressRecipient", "Supplier or Company">> >>

MappedNames == {FieldMapping[i][1] : i \in 1..Len(FieldMapping)}

\* document_data without the pre-populated defaults of lines 141-143
DefaultData_OnlyConstant ==
    [k \in {"Document Type"} |->
        [value |-> Some("Payable Voucher"), confidence |-> Some(100)]]

\* lines 132-143
DefaultData ==
    [k \in {"Document Type", "PV Number", "Supplier or Company", "Date Prepared"} |->
        IF k = "Document Type"
        THEN [value |-> Some("Payable Voucher"), confidence |-> Some(100)]
        ELSE [value |-> None, confidence |-> Some(0)]]

\* str(datetime.date): ISO form YYYY-MM-DD
Pad2(n) == IF n < 10 THEN "0" \o ToString(n) ELSE ToString(n)
Pad4(n) == IF n < 10 THEN "000" \o ToString(n)
           ELSE IF n < 100 THEN "00" \o ToString(n)
           ELSE IF n < 1000 THEN "0" \o ToString(n)
           ELSE ToString(n)
DateStr(d) == Pad4(d[1]) \o "-" \o Pad2(d[2]) \o "-" \o Pad2(d[3])

\* the precedence with the typed date tested before the typed string
ResolveValue_DateFirst(field) ==
    IF "value_date" \in DOMAIN field /\ field.value_date # None
    THEN Some(DateStr(field.value_date[1]))
    ELSE IF "value_string" \in DOMAIN field /\ field.value_string # None
    THEN field.value_string
    ELSE IF "content" \in DOMAIN field /\ field.content # None
    THEN field.content
    ELSE None

\* lines 159-166
ResolveValue(field) ==
    IF "value_string" \in DOMAIN field /\ field.value_string # None
    THEN field.value_string
    ELSE IF "value_date" \in DOMAIN field /\ field.value_date # None
    THEN Some(DateStr(field.value_date[1]))
    ELSE IF "content" \in DOMAIN field /\ field.content # None
    THEN field.content
    ELSE None

\* the entry stored under the native name instead of the display name
ProcessField_NativeKey(data, fields, pair) ==
    IF pair[1] \notin DOMAIN fields THEN [exc |-> None, data |-> data]
    ELSE LET field == fields[pair[1]] IN
         IF "confidence" \notin DOMAIN field
         THEN [exc |-> Some(PlainExc("AttributeError", "object has no attribute 'confidence'")),
               data |-> data]
         ELSE [exc |-> None,
               data |-> [k \in (DOMAIN data) \cup {pair[1]} |->
                           IF k = pair[1]
                           THEN [value |-> ResolveValue(field), confidence |-> field.confidence]
                           ELSE data[k]]]

\* an entry left alone when the field resolves to no value
ProcessField_SkipsNull(data, fields, pair) ==
    IF pair[1] \notin DOMAIN fields THEN [exc |-> None, data |-> data]
    ELSE LET field == fields[pair[1]] IN
         IF "confidence" \notin DOMAIN field
         THEN [exc |-> Some(PlainExc("AttributeError", "object has no attribute 'confidence'")),
               data |-> data]
         ELSE IF ResolveValue(field) = None THEN [exc |-> None, data |-> data]
         ELSE [exc |-> None,
               data |-> [k \in (DOMAIN data) \cup {pair[2]} |->
                           IF k = pair[2]
                           THEN [value |-> ResolveValue(field), confidence |-> field.confidence]
                           ELSE data[k]]]

\* lines 155-171 for one (api_field, display_field) pair: the new
\* document_data, or the exception raised by the attribute access
ProcessField(data, fields, pair) ==
    IF pair[1] \notin DOMAIN fields THEN [exc |-> None, data |-> data]
    ELSE LET field == fields[pair[1]] IN
         IF "confidence" \notin DOMAIN field
         THEN [exc |-> Some(PlainExc("AttributeError", "object has no attribute 'confidence'")),
               data |-> data]
         ELSE [exc |-> None,
               data |-> [k \in (DOMAIN data) \cup {pair[2]} |->
                           IF k = pair[2]
                           THEN [value |-> ResolveValue(field), confidence |-> field.confidence]
                           ELSE data[k]]]

RECURSIVE ProcessPairs(_, _, _)
\* the inner loop, line 154, from the i-th pair on
ProcessPairs(data, fields, i) ==
    IF i > Len(FieldMapping) THEN [exc |-> None, data |-> data]
    ELSE LET r == ProcessField(data, fields, FieldMapping[i]) IN
         IF r.exc # None THEN r ELSE ProcessPairs(r.data, fields, i + 1)

\* the body of the outer loop, lines 148-172, for one document
ProcessDocument(data, document) ==
    IF document.fields = None
    THEN [exc |-> Some(PlainExc("TypeError", "'NoneType' object is not iterable")), data |-> data]
    ELSE ProcessPairs(data, document.fields[1], 1)

RECURSIVE ProcessDocuments(_, _)
\* the outer loop, line 147
ProcessDocuments(data, documents) ==
    IF documents = <<>> THEN [exc |-> None, data |-> data]
    ELSE LET r == ProcessDocument(data, Head(documents)) IN
         IF r.exc # None THEN r ELSE ProcessDocuments(r.data, Tail(documents))

\* lines 115-179 given what begin_analyze_document(...).result() did:
\* call.exc is the exception it raised, else call.result is its result
ProcessInvoice(call) ==
    LET r == IF call.exc # None THEN [exc |-> call.exc, data |-> DefaultData]
             ELSE IF "documents" \in DOMAIN call.result /\ call.result.documents # <<>>
             THEN ProcessDocuments(DefaultData, call.result.documents)
             ELSE [exc |-> None, data |-> DefaultData] IN
    IF r.exc # None
    THEN [exc |-> Some(HTTPException(500, Str(r.exc[1]))), data |-> None]
    ELSE [exc |-> None, data |-> Some(r.data)]

(* Source fields as the recognition service may deliver them. *)
SampleDate == <<2024, 1, 5>>

FieldSamples ==
    { [value_string |-> Some("INV-1"), value_date |-> Some(SampleDate),
       content |-> Some("raw text"), confidence |-> Some(90)],
      [value_string |-> None, value_date |-> Some(SampleDate),
       content |-> Some("raw text"), confidence |-> Some(50)],
      [value_string |-> None, value_date |-> None,
       content |-> Some("raw text"), confidence |-> Some(100)],
      [value_string |-> None, value_date |-> None,
       content |-> None, confidence |-> Some(30)],
      [content |-> Some("raw text"), confidence |-> None],
      [value_date |-> Some(SampleDate), confidence |-> Some(70)] }

BrokenField == [value_string |-> Some("INV-1")]

\* a document whose fields are exactly those of f
DocOf(f) == [fields |-> Some(f)]

Documents ==
    {DocOf(f) : f \in UNION {[N -> FieldSamples] : N \in SUBSET MappedNames}}
    \cup {DocOf([n \in {"Document Type", "VendorName", "InvoiceId"} |->
                    [value_string |-> Some("Other"), confidence |-> Some(10)]]),
          DocOf([n \in {"InvoiceId", "InvoiceDate"} |->
                    IF n = "InvoiceId" THEN CHOOSE f \in FieldSamples : f.confidence = Some(90)
                    ELSE BrokenField]),
          [fields |-> None]}

(* What begin_analyze_document(...).result() may do for a request. *)
RecognitionCalls ==
    { [exc |-> Some(PlainExc("HttpResponseError", "(401) Access denied")), result |-> [documents |-> <<>>]],
      [exc |-> None, result |-> [documents |-> <<>>]],
      [exc |-> None, result |-> [documents |->
          << DocOf([n \in {"InvoiceId"} |->
                 [value_string |-> Some("INV-1"), value_date |-> None,
                  content |-> Some("raw text"), confidence |-> Some(90)]]) >>]],
      [exc |-> None, result |-> [documents |-> << [fields |-> None] >>]] }

----------------------------------------------------------------------------
(* The event loop, the executor and process_document (lines 181-225).       *)

Tokens == {"tok-1", "tok-2"}
Filenames == {"a.pdf"}

Forms == [filename : Filenames, file : Files, metadata : MetadataInputs, token : Tokens]

Cb(kind, r) == [k |-> kind, r |-> r]

NoOutcome == [exc |-> None, ret |-> None]
NoData == [exc |-> None, data |-> None]
NoOuter == [state |-> "none", exc |-> None]

\* the state of a freshly started server
Started ==
    /\ req = [r \in Requests |-> None]
    /\ pc = [r \in Requests |-> "absent"]
    /\ ready = <<>>
    /\ loopBusy = 0
    /\ mdict = [r \in Requests |-> None]
    /\ pi = [r \in Requests |-> "none"]
    /\ piResult = [r \in Requests |-> NoData]
    /\ efp = [r \in Requests |-> "none"]
    /\ efpResult = [r \in Requests |-> NoOutcome]
    /\ poolQueue = <<>>
    /\ poolRunning = {}
    /\ jobResult = [r \in Requests |-> None]
    /\ renderMode = [r \in Requests |-> "none"]
    /\ nfinished = [r \in Requests |-> 0]
    /\ outer = [r \in Requests |-> NoOuter]
    /\ status = [r \in Requests |-> 0]
    /\ envelope = [r \in Requests |-> None]
    /\ detail = [r \in Requests |-> ""]

\* no process_invoice call is being followed step by step
RemapIdle ==
    /\ rmPc = "idle"
    /\ rmDocsLeft = 0
    /\ rmDoc = None
    /\ rmData = <<>>
    /\ rmSeen = {}
    /\ rmLast = [n \in MappedNames |-> None]
    /\ rmExc = None

\* the loop thread is free and the callback at the head of its queue is (kind, r)
LoopHead(kind, r) ==
    /\ loopBusy = 0
    /\ ready # <<>>
    /\ Head(ready) = Cb(kind, r)

\* the server accepts a request and creates the process_document task
\* (requests are numbered in their order of arrival; in a burst they all
\* arrive before the loop runs the first handler)
Arrive(r) ==
    /\ loopBusy = 0
    /\ r \in scenario.requests
    /\ pc[r] = "absent"
    /\ \A q \in Requests : q < r => pc[q] # "absent"
    /\ scenario.burst => \A q \in Requests : pc[q] \in {"absent", "start"}
    /\ \E f \in scenario.forms : req' = [req EXCEPT ![r] = Some(f)]
    /\ pc' = [pc EXCEPT ![r] = "start"]
    /\ ready' = Append(ready, Cb("pd_start", r))
    /\ UNCHANGED <<remapVars, scenario, loopBusy, mdict, pi, piResult, efp, efpResult,
                   poolQueue, poolRunning, jobResult, renderMode, nfinished, outer,
                   status, envelope, detail>>

\* lines 192-202 and, for malformed metadata, 223-225: everything between
\* the return of file.read() and the suspension at `await asyncio.gather`
ParseAndDispatch(r, rest) ==
    LET j == JsonLoads(req[r][1].metadata) IN
    IF ~j.ok
    THEN /\ status' = [status EXCEPT ![r] = 500]
         /\ detail' = [detail EXCEPT ![r] = Str(PlainExc("JSONDecodeError", j.err))]
         /\ pc' = [pc EXCEPT ![r] = "done"]
         /\ ready' = rest
         /\ UNCHANGED <<mdict, pi, efp, outer>>
    ELSE /\ mdict' = [mdict EXCEPT ![r] = Some(j.val)]
         /\ pi' = [pi EXCEPT ![r] = "scheduled"]
         /\ efp' = [efp EXCEPT ![r] = "scheduled"]
         /\ outer' = [outer EXCEPT ![r] = [state |-> "pending", exc |-> None]]
         /\ ready' = rest \o <<Cb("pi_step", r), Cb("efp_step", r)>>
         /\ pc' = [pc EXCEPT ![r] = "join"]
         /\ UNCHANGED <<status, detail>>

\* first step of process_document, file.read() returning without suspending
PdStartInline(r) ==
    /\ LoopHead("pd_start", r)
    /\ ParseAndDispatch(r, Tail(ready))
    /\ UNCHANGED <<remapVars, scenario, req, loopBusy, piResult, efpResult, poolQueue, poolRunning,
                   jobResult, renderMode, nfinished, envelope>>

\* first step of process_document, suspended at `await file.read()`
PdStartSuspend(r) ==
    /\ LoopHead("pd_start", r)
    /\ pc' = [pc EXCEPT ![r] = "reading"]
    /\ ready' = Tail(ready)
    /\ UNCHANGED <<remapVars, scenario, req, loopBusy, mdict, pi, piResult, efp, efpResult, poolQueue,
                   poolRunning, jobResult, renderMode, nfinished, outer,
                   status, envelope, detail>>

\* the upload has been read by a helper thread, which wakes the task
ReadDone(r) ==
    /\ pc[r] = "reading"
    /\ pc' = [pc EXCEPT ![r] = "read_done"]
    /\ ready' = Append(ready, Cb("pd_read", r))
    /\ UNCHANGED <<remapVars, scenario, req, loopBusy, mdict, pi, piResult, efp, efpResult, poolQueue,
                   poolRunning, jobResult, renderMode, nfinished, outer,
                   status, envelope, detail>>

\* process_document resumed after `await file.read()`
PdRead(r) ==
    /\ LoopHead("pd_read", r)
    /\ ParseAndDispatch(r, Tail(ready))
    /\ UNCHANGED <<remapVars, scenario, req, loopBusy, piResult, efpResult, poolQueue, poolRunning,
                   jobResult, renderMode, nfinished, envelope>>

\* the process_invoice task starts: lines 115-122 call poller.result()
\* synchronously, so the loop thread stays inside this callback
PiStep(r) ==
    /\ LoopHead("pi_step", r)
    /\ pi' = [pi EXCEPT ![r] = "running"]
    /\ loopBusy' = r
    /\ ready' = Tail(ready)
    /\ UNCHANGED <<remapVars, scenario, req, pc, mdict, piResult, efp, efpResult, poolQueue,
                   poolRunning, jobResult, renderMode, nfinished, outer,
                   status, envelope, detail>>

\* poller.result() returns or raises; lines 125-179 run to the end of the
\* coroutine and the finished task schedules gather's done callback
RecognitionReturn(r) ==
    /\ loopBusy = r
    /\ \E call \in scenario.calls :
          LET res == ProcessInvoice(call) IN
          /\ piResult' = [piResult EXCEPT ![r] = res]
          /\ pi' = [pi EXCEPT ![r] = IF res.exc = None THEN "ok" ELSE "raised"]
    /\ loopBusy' = 0
    /\ ready' = Append(ready, Cb("gather_pi", r))
    /\ UNCHANGED <<remapVars, scenario, req, pc, mdict, efp, efpResult, poolQueue, poolRunning,
                   jobResult, renderMode, nfinished, outer, status, envelope, detail>>

\* an executor that drops the job submitted while all its workers are taken
EfpStep_DropsWhenBusy(r) ==
    /\ LoopHead("efp_step", r)
    /\ efp' = [efp EXCEPT ![r] = "waiting"]
    /\ poolQueue' = IF Cardinality(poolRunning) + Len(poolQueue) >= MaxWorkers
                    THEN poolQueue
                    ELSE Append(poolQueue, r)
    /\ ready' = Tail(ready)
    /\ UNCHANGED <<remapVars, scenario, req, pc, loopBusy, mdict, pi, piResult, efpResult,
                   poolRunning, jobResult, renderMode, nfinished, outer,
                   status, envelope, detail>>

\* the extract_first_page task starts: line 111 submits _extract and awaits
EfpStep(r) ==
    /\ LoopHead("efp_step", r)
    /\ efp' = [efp EXCEPT ![r] = "waiting"]
    /\ poolQueue' = Append(poolQueue, r)
    /\ ready' = Tail(ready)
    /\ UNCHANGED <<remapVars, scenario, req, pc, loopBusy, mdict, pi, piResult, efpResult,
                   poolRunning, jobResult, renderMode, nfinished, outer,
                   status, envelope, detail>>

\* an executor that starts one worker more than max_workers
WorkerTake_OffByOne ==
    /\ poolQueue # <<>>
    /\ Cardinality(poolRunning) <= MaxWorkers
    /\ poolRunning' = poolRunning \cup {Head(poolQueue)}
    /\ poolQueue' = Tail(poolQueue)
    /\ UNCHANGED <<remapVars, scenario, req, pc, ready, loopBusy, mdict, pi, piResult, efp, efpResult,
                   jobResult, renderMode, nfinished, outer, status, envelope, detail>>

\* a free worker of the executor takes the oldest queued job
WorkerTake ==
    /\ poolQueue # <<>>
    /\ Cardinality(poolRunning) < MaxWorkers
    /\ poolRunning' = poolRunning \cup {Head(poolQueue)}
    /\ poolQueue' = Tail(poolQueue)
    /\ UNCHANGED <<remapVars, scenario, req, pc, ready, loopBusy, mdict, pi, piResult, efp, efpResult,
                   jobResult, renderMode, nfinished, outer, status, envelope, detail>>

\* _extract finishes in its worker thread; the executor future is completed
\* and call_soon_threadsafe hands the completion to the loop
WorkerFinish(r) ==
    /\ r \in poolRunning
    /\ \E mode \in scenario.modes :
          /\ renderMode' = [renderMode EXCEPT ![r] = mode]
          /\ jobResult' = [jobResult EXCEPT ![r] = Some(Extract(mode, req[r][1].file))]
    /\ poolRunning' = poolRunning \ {r}
    /\ ready' = Append(ready, Cb("fut_set", r))
    /\ UNCHANGED <<remapVars, scenario, req, pc, loopBusy, mdict, pi, piResult, efp, efpResult,
                   poolQueue, nfinished, outer, status, envelope, detail>>

\* the loop copies the executor future's state to the awaited future, which
\* schedules the wake-up of the extract_first_page task
FutSet(r) ==
    /\ LoopHead("fut_set", r)
    /\ ready' = Append(Tail(ready), Cb("efp_wake", r))
    /\ UNCHANGED <<remapVars, scenario, req, pc, loopBusy, mdict, pi, piResult, efp, efpResult,
                   poolQueue, poolRunning, jobResult, renderMode, nfinished,
                   outer, status, envelope, detail>>

\* extract_first_page resumes at line 111 and returns (or re-raises) what
\* _extract produced; the finished task schedules gather's done callback
EfpWake(r) ==
    /\ LoopHead("efp_wake", r)
    /\ efpResult' = [efpResult EXCEPT ![r] = jobResult[r][1]]
    /\ efp' = [efp EXCEPT ![r] = IF jobResult[r][1].exc = None THEN "returned" ELSE "raised"]
    /\ ready' = Append(Tail(ready), Cb("gather_efp", r))
    /\ UNCHANGED <<remapVars, scenario, req, pc, loopBusy, mdict, pi, piResult, poolQueue, poolRunning,
                   jobResult, renderMode, nfinished, outer, status, envelope, detail>>

\* gather with return_exceptions=True: a child's exception counts as its result
GatherDone_ReturnExceptions(o, n, exc) ==
    IF o.state # "pending" THEN o
    ELSE IF n = 2 THEN [state |-> "result", exc |-> None]
    ELSE o

\* a race instead of a barrier: the first child to finish completes the join
GatherDone_FirstCompleted(o, n, exc) ==
    IF o.state # "pending" THEN o
    ELSE IF exc # None THEN [state |-> "exception", exc |-> exc]
    ELSE [state |-> "result", exc |-> None]

\* asyncio.gather's _done_callback (return_exceptions=False, two children):
\* o is the outer future, n the number of finished children including this
\* one, exc the exception of the child that just finished
GatherDone(o, n, exc) ==
    IF o.state # "pending" THEN o
    ELSE IF exc # None THEN [state |-> "exception", exc |-> exc]
    ELSE IF n = 2 THEN [state |-> "result", exc |-> None]
    ELSE o

GatherCallback(r, kind, exc) ==
    /\ LoopHead(kind, r)
    /\ nfinished' = [nfinished EXCEPT ![r] = @ + 1]
    /\ LET o == GatherDone(outer[r], nfinished[r] + 1, exc) IN
          /\ outer' = [outer EXCEPT ![r] = o]
          /\ ready' = IF o.state # outer[r].state
                      THEN Append(Tail(ready), Cb("pd_join", r))
                      ELSE Tail(ready)
    /\ UNCHANGED <<remapVars, scenario, req, pc, loopBusy, mdict, pi, piResult, efp, efpResult,
                   poolQueue, poolRunning, jobResult, renderMode,
                   status, envelope, detail>>

GatherPi(r) == GatherCallback(r, "gather_pi", piResult[r].exc)

GatherEfp(r) == GatherCallback(r, "gather_efp", efpResult[r].exc)

\* response_data with the caller's metadata replaced by a stamp of the upload
ResponseData_StampsMetadata(r) ==
    [filename |-> req[r][1].filename,
     extracted_data |-> piResult[r].data,
     thumbnail |-> efpResult[r].ret,
     metadata |-> [obj |-> [k \in {"filename"} |-> [str |-> req[r][1].filename]]]]

\* response_data with the token echoed back
ResponseData_EchoesToken(r) ==
    [filename |-> req[r][1].filename,
     extracted_data |-> piResult[r].data,
     thumbnail |-> efpResult[r].ret,
     metadata |-> mdict[r][1],
     token |-> req[r][1].token]

\* response_data, lines 207-212 (extracted_data kept as Some(document_data))
ResponseData(r) ==
    [filename |-> req[r][1].filename,
     extracted_data |-> piResult[r].data,
     thumbnail |-> efpResult[r].ret,
     metadata |-> mdict[r][1]]

\* process_document resumes at line 199: lines 204-221 on a result,
\* lines 223-225 on an exception
PdJoin(r) ==
    /\ LoopHead("pd_join", r)
    /\ IF outer[r].state = "exception"
       THEN /\ status' = [status EXCEPT ![r] = 500]
            /\ detail' = [detail EXCEPT ![r] = Str(outer[r].exc[1])]
            /\ UNCHANGED envelope
       ELSE /\ envelope' = [envelope EXCEPT ![r] = Some(ResponseData(r))]
            /\ status' = [status EXCEPT ![r] = 200]
            /\ UNCHANGED detail
    /\ pc' = [pc EXCEPT ![r] = "done"]
    /\ ready' = Tail(ready)
    /\ UNCHANGED <<remapVars, scenario, req, loopBusy, mdict, pi, piResult, efp, efpResult,
                   poolQueue, poolRunning, jobResult, renderMode, nfinished, outer>>

Next ==
    \/ \E r \in Requests : Arrive(r)
    \/ \E r \in Requests : PdStartInline(r)
    \/ \E r \in Requests : PdStartSuspend(r)
    \/ \E r \in Requests : ReadDone(r)
    \/ \E r \in Requests : PdRead(r)
    \/ \E r \in Requests : PiStep(r)
    \/ \E r \in Requests : RecognitionReturn(r)
    \/ \E r \in Requests : EfpStep(r)
    \/ WorkerTake
    \/ \E r \in Requests : WorkerFinish(r)
    \/ \E r \in Requests : FutSet(r)
    \/ \E r \in Requests : EfpWake(r)
    \/ \E r \in Requests : GatherPi(r)
    \/ \E r \in Requests : GatherEfp(r)
    \/ \E r \in Requests : PdJoin(r)

\* several clients, each collaborator with one failing and one succeeding behaviour
Traffic == [requests |-> Clients,
            forms |-> {f \in Forms : f.token = "tok-1" /\ Len(f.metadata) < 4},
            calls |-> {c \in RecognitionCalls : c.exc # None \/ c.result.documents # <<>>},
            modes |-> {"ok", "zero_pages"},
            burst |-> FALSE]

\* one client, every form and every behaviour of the collaborators
Solo == [requests |-> {1}, forms |-> Forms, calls |-> RecognitionCalls, modes |-> RenderModes,
         burst |-> FALSE]

\* two clients whose forms may differ in the token
Pair == [requests |-> {1, 2},
         forms |-> {f \in Forms : Len(f.metadata) < 4},
         calls |-> {c \in RecognitionCalls : c.exc # None \/ c.result.documents # <<>>},
         modes |-> {"ok", "zero_pages"},
         burst |-> FALSE]

Init == Started /\ RemapIdle /\ scenario = Traffic

InitPair == Started /\ RemapIdle /\ scenario = Pair

InitSolo == Started /\ RemapIdle /\ scenario = Solo

Spec == Init /\ [][Next]_vars

SpecSolo == InitSolo /\ [][Next]_vars

SpecPair == InitPair /\ [][Next]_vars

\* one client more than the executor has workers, all accepted before the
\* loop runs the first handler; the metadata is well-formed or not, the
\* recognition returns a result without documents, the rendering succeeds
Crowd == [requests |-> 1..(MaxWorkers + 1),
          forms |-> {f \in Forms : f.token = "tok-1" /\ Len(f.metadata) < 4},
          calls |-> {c \in RecognitionCalls : c.exc = None /\ c.result.documents = <<>>},
          modes |-> {"ok"},
          burst |-> TRUE]

InitCrowd == Started /\ RemapIdle /\ scenario = Crowd

\* every step but the arrival of a request: the loop running a callback,
\* a collaborator answering, a worker taking or finishing a job
\* (the uploads are small enough to be held in memory, so that
\* `await file.read()` returns without suspending the task)
Progress ==
    \/ \E r \in Requests : PdStartInline(r)
    \/ \E r \in Requests : PiStep(r)
    \/ \E r \in Requests : RecognitionReturn(r)
    \/ \E r \in Requests : EfpStep(r)
    \/ WorkerTake
    \/ \E r \in Requests : WorkerFinish(r)
    \/ \E r \in Requests : FutSet(r)
    \/ \E r \in Requests : EfpWake(r)
    \/ \E r \in Requests : GatherPi(r)
    \/ \E r \in Requests : GatherEfp(r)
    \/ \E r \in Requests : PdJoin(r)

NextCrowd ==
    \/ \E r \in Requests : Arrive(r)
    \/ Progress

SpecCrowd == InitCrowd /\ [][NextCrowd]_vars

\* every recognition call and every rendering job terminates, the loop
\* runs its ready callbacks and a free worker takes a queued job
FairSpecCrowd == SpecCrowd /\ WF_vars(Progress)

----------------------------------------------------------------------------
(* process_invoice followed statement by statement for one call, the        *)
(* documents of the result being drawn as the loop of line 147 meets them.  *)

Quiet == [requests |-> {}, forms |-> {}, calls |-> {}, modes |-> {}, burst |-> FALSE]

InitRemap ==
    /\ Started
    /\ scenario = Quiet
    /\ rmPc = "call"
    /\ rmDocsLeft = 0
    /\ rmDoc = None
    /\ rmData = <<>>
    /\ rmSeen = {}
    /\ rmLast = [n \in MappedNames |-> None]
    /\ rmExc = None

\* lines 118-122 raise: lines 177-179
RmCallRaises ==
    /\ rmPc = "call"
    /\ rmExc' = Some(HTTPException(500, Str(PlainExc("HttpResponseError", "(401) Access denied"))))
    /\ rmPc' = "raised"
    /\ UNCHANGED <<loopVars, rmDocsLeft, rmDoc, rmData, rmSeen, rmLast>>

\* lines 118-146: the call returns a result with n documents (a result
\* without documents, or with an empty list, has none to iterate)
RmAnalyze ==
    /\ rmPc = "call"
    /\ \E n \in 0..MaxDocs : rmDocsLeft' = n
    /\ rmData' = DefaultData
    /\ rmPc' = "loop"
    /\ UNCHANGED <<loopVars, rmDoc, rmSeen, rmLast, rmExc>>

\* one iteration of the loop of line 147, lines 148-172 (and 177-179 when
\* the iteration raises)
RmIterate ==
    /\ rmPc = "loop"
    /\ rmDocsLeft > 0
    /\ \E d \in Documents :
          LET r == ProcessDocument(rmData, d) IN
          /\ rmDoc' = Some(d)
          /\ IF r.exc # None
             THEN /\ rmExc' = Some(HTTPException(500, Str(r.exc[1])))
                  /\ rmPc' = "raised"
                  /\ UNCHANGED <<rmData, rmSeen, rmLast, rmDocsLeft>>
             ELSE /\ rmData' = r.data
                  /\ rmSeen' = rmSeen \cup
                        ((DOMAIN d.fields[1]) \cap
                           {"InvoiceId", "InvoiceDate", "RemittanceAddressRecipient"})
                  /\ rmLast' = [n \in DOMAIN rmLast |->
                                   IF n \in DOMAIN d.fields[1]
                                   THEN Some(d.fields[1][n]) ELSE rmLast[n]]
                  /\ rmDocsLeft' = rmDocsLeft - 1
                  /\ UNCHANGED <<rmPc, rmExc>>
    /\ UNCHANGED loopVars

\* lines 174-175
RmReturn ==
    /\ rmPc = "loop"
    /\ rmDocsLeft = 0
    /\ rmPc' = "returned"
    /\ UNCHANGED <<loopVars, rmDocsLeft, rmDoc, rmData, rmSeen, rmLast, rmExc>>

NextRemap ==
    \/ RmCallRaises
    \/ RmAnalyze
    \/ RmIterate
    \/ RmReturn

SpecRemap == InitRemap /\ [][NextRemap]_vars

----------------------------------------------------------------------------
(* Properties *)

Range(q) == {q[i] : i \in 1..Len(q)}

\* a unit of work of request r is still queued in the loop
LoopPending(r) == \E i \in 1..Len(ready) : ready[i].r = r

\* the _extract job of request r is queued or executing in the executor
JobInPool(r) == r \in Range(poolQueue) \/ r \in poolRunning

\* the loop runs the callback at the head of its queue
LoopRuns ==
    \E r \in Requests :
        \/ PdStartInline(r) \/ PdStartSuspend(r) \/ PdRead(r)
        \/ PiStep(r) \/ EfpStep(r) \/ FutSet(r) \/ EfpWake(r)
        \/ GatherPi(r) \/ GatherEfp(r) \/ PdJoin(r)

(* C1: within one request extraction and rendering are not serialized:      *)
(* while the extraction of a request is in progress its rendering has       *)
(* started or can start at once, and while its rendering is in progress     *)
(* its extraction has started or can start at once.                         *)
C1_NotSerialized ==
    \A r \in Requests :
        /\ pi[r] = "running" =>
              (efp[r] \in {"waiting", "returned", "raised"} \/ ENABLED EfpStep(r))
        /\ (efp[r] = "waiting" /\ jobResult[r] = None) =>
              (pi[r] \in {"running", "ok", "raised"} \/ ENABLED PiStep(r))

(* C2: while the recognition call of a request A is pending, the loop is    *)
(* not occupied: when a callback of another request B is ready, the loop    *)
(* can run its queue, so that B is read, dispatched and completed.          *)
C2_SchedulerNotOccupied ==
    \A a, b \in Requests :
        (a # b /\ pi[a] = "running" /\ LoopPending(b)) => ENABLED LoopRuns

(* C3: if the recognition call or the field remap raised for a request,     *)
(* no response envelope is constructed for it and its only HTTP outcome is  *)
(* 500, whatever rendering did or is still doing.                           *)
C3_ExtractionFailureIs500 ==
    \A r \in Requests :
        pi[r] = "raised" =>
            /\ envelope[r] = None
            /\ status[r] \in {0, 500}
            /\ pc[r] = "done" => status[r] = 500

C3_Witness ==
    \E r \in Requests :
        /\ pi[r] = "raised"
        /\ status[r] = 500
        /\ efp[r] = "waiting"

(* C4: if rendering failed in any way while extraction succeeded, _extract  *)
(* returned None without raising, extract_first_page does not raise, and    *)
(* the request ends with HTTP 200, thumbnail null and the extracted_data    *)
(* that extraction produced.                                                *)
C4_RenderFailureDegrades ==
    \A r \in Requests :
        (renderMode[r] \in FailingRenderModes /\ pi[r] = "ok") =>
            /\ jobResult[r] = Some([exc |-> None, ret |-> None])
            /\ efp[r] # "raised"
            /\ status[r] \in {0, 200}
            /\ pc[r] = "done" =>
                  /\ status[r] = 200
                  /\ envelope[r] # None
                  /\ envelope[r][1].thumbnail = None
                  /\ envelope[r][1].extracted_data = piResult[r].data
                  /\ piResult[r].data # None

C4_Witness ==
    \E r \in Requests :
        /\ renderMode[r] = "raster_raises"
        /\ pi[r] = "ok"
        /\ status[r] = 200
        /\ envelope[r] # None
        /\ envelope[r][1].thumbnail = None

(* C5: the response envelope of a request exists only if its extraction     *)
(* has completed successfully and its rendering has completed too.          *)
C5_JoinIsBarrier ==
    \A r \in Requests :
        envelope[r] # None =>
            /\ pi[r] = "ok"
            /\ efp[r] \in {"returned", "raised"}
            /\ ~JobInPool(r)

C5_Witness ==
    \E r \in Requests :
        /\ envelope[r] # None
        /\ envelope[r][1].thumbnail # None
        /\ status[r] = 200

(* C6: once the HTTP outcome of a request has been produced, no unit of     *)
(* work of that request is pending or running, in the loop or in the        *)
(* executor.                                                                *)
C6_NothingOutlivesResponse ==
    \A r \in Requests :
        status[r] # 0 =>
            /\ ~JobInPool(r)
            /\ ~LoopPending(r)
            /\ pi[r] \notin {"scheduled", "running"}
            /\ efp[r] \notin {"scheduled", "waiting"}

(* C7: a request whose metadata string is not valid JSON ends with HTTP     *)
(* 500, and neither the recognition call nor a rendering job is ever        *)
(* started for it.                                                          *)
C7_BadMetadataStartsNothing ==
    \A r \in Requests :
        (req[r] # None /\ req[r][1].metadata \in InvalidMetadata) =>
            /\ pi[r] = "none"
            /\ efp[r] = "none"
            /\ ~JobInPool(r)
            /\ renderMode[r] = "none"
            /\ status[r] \in {0, 500}
            /\ envelope[r] = None
            /\ pc[r] = "done" => status[r] = 500

C7_Witness ==
    \E r \in Requests :
        /\ req[r] # None
        /\ req[r][1].metadata \in InvalidMetadata
        /\ pc[r] = "done"
        /\ status[r] = 500

\* the output key the remap assigns to a native field
OutputKeyOf(name) ==
    CASE name = "InvoiceId" -> "PV Number"
      [] name = "InvoiceDate" -> "Date Prepared"
      [] name = "RemittanceAddressRecipient" -> "Supplier or Company"

(* C8: whatever the recognition result, the document_data returned by       *)
(* process_invoice has exactly the four keys Document Type, PV Number,      *)
(* Supplier or Company, Date Prepared.                                      *)
C8_ExactlyFourKeys ==
    rmPc = "returned" =>
        DOMAIN rmData = {"Document Type", "PV Number", "Supplier or Company", "Date Prepared"}

C8_Witness ==
    /\ rmPc = "returned"
    /\ rmDoc # None
    /\ "VendorName" \in DOMAIN rmDoc[1].fields[1]

(* C9: a mapped native field that no document of the result contains        *)
(* leaves its output entry at value null, confidence 0.0.                   *)
C9_MissingFieldDefaults ==
    rmPc = "returned" =>
        \A name \in {"InvoiceId", "InvoiceDate", "RemittanceAddressRecipient"} :
            name \notin rmSeen =>
                /\ OutputKeyOf(name) \in DOMAIN rmData
                /\ rmData[OutputKeyOf(name)] = [value |-> None, confidence |-> Some(0)]

C9_Witness ==
    /\ rmPc = "returned"
    /\ rmDoc # None
    /\ rmSeen = {"InvoiceId", "RemittanceAddressRecipient"}

\* attribute a of field f exists and is not None
NonNull(f, a) == a \in DOMAIN f /\ f[a] # None

(* C10: the entry written for a mapped field present in a document takes    *)
(* the typed string if non-null, else the typed date as a string if         *)
(* non-null, else the raw content if non-null, else null; its confidence    *)
(* is the source field's confidence.                                        *)
C10_ValuePrecedence ==
    (rmPc \in {"loop", "returned"} /\ rmDoc # None) =>
        \A name \in {"InvoiceId", "InvoiceDate", "RemittanceAddressRecipient"} :
            name \in DOMAIN rmDoc[1].fields[1] =>
                LET f == rmDoc[1].fields[1][name]
                    out == rmData[OutputKeyOf(name)] IN
                /\ out.confidence = f.confidence
                /\ NonNull(f, "value_string") => out.value = f.value_string
                /\ (~NonNull(f, "value_string") /\ NonNull(f, "value_date")) =>
                       out.value = Some("2024-01-05")
                /\ (~NonNull(f, "value_string") /\ ~NonNull(f, "value_date")
                      /\ NonNull(f, "content")) => out.value = f.content
                /\ (~NonNull(f, "value_string") /\ ~NonNull(f, "value_date")
                      /\ ~NonNull(f, "content")) => out.value = None

C10_Witness ==
    /\ rmPc = "returned"
    /\ rmDoc # None
    /\ DOMAIN rmDoc[1].fields[1] = {"InvoiceId", "InvoiceDate", "RemittanceAddressRecipient"}
    /\ rmDoc[1].fields[1]["InvoiceId"].confidence = Some(90)
    /\ rmDoc[1].fields[1]["InvoiceDate"].confidence = Some(50)
    /\ rmDoc[1].fields[1]["RemittanceAddressRecipient"].confidence = Some(30)
    /\ rmData["PV Number"].value = Some("INV-1")
    /\ rmData["Date Prepared"].value = Some("2024-01-05")
    /\ rmData["Supplier or Company"].value = None

(* C11: every entry of the document_data returned by process_invoice has a  *)
(* confidence that is a number between 0 and 1 (0..100 in hundredths),      *)
(* also when a mapped source field carries no confidence.                   *)
C11_ConfidenceInUnitInterval ==
    rmPc = "returned" =>
        \A k \in DOMAIN rmData :
            /\ rmData[k].confidence # None
            /\ rmData[k].confidence[1] \in 0..100

\* the Python value each valid metadata string denotes
MetadataMeaning(toks) ==
    IF toks = <<"{", "}">> THEN [obj |-> <<>>]
    ELSE [obj |-> [k \in {"a"} |-> [arr |-> <<[num |-> 1], [null |-> TRUE]>>]]]

(* C12: in every successful response the metadata member is the parsed      *)
(* form of the submitted metadata string, whatever extraction and           *)
(* rendering produced; metadata_dict keeps that value from the parse on.    *)
C12_MetadataEchoed ==
    \A r \in Requests :
        /\ mdict[r] # None => mdict[r] = Some(MetadataMeaning(req[r][1].metadata))
        /\ envelope[r] # None =>
              envelope[r][1].metadata = MetadataMeaning(req[r][1].metadata)

C12_Witness ==
    \E r \in Requests :
        /\ envelope[r] # None
        /\ Len(req[r][1].metadata) > 2
        /\ envelope[r][1].metadata.obj["a"].arr[2] = [null |-> TRUE]
        /\ envelope[r][1].thumbnail = None
        /\ envelope[r][1].extracted_data[1]["PV Number"].value # None

(* C13: when extraction fails with an error whose text is T (the detail of  *)
(* the HTTPException process_invoice raises), the detail of the HTTP 500    *)
(* answered by the endpoint is T.                                           *)
C13_OriginalErrorText ==
    \A r \in Requests :
        (pi[r] = "raised" /\ status[r] = 500) =>
            detail[r] = piResult[r].exc[1].detail

(* C14: 'Document Type' in document_data is always value 'Payable Voucher'  *)
(* with confidence 1.0, from its creation to the return, also for results   *)
(* with several documents or with a native field named 'Document Type'.     *)
C14_DocumentTypeConstant ==
    rmPc \in {"loop", "returned"} =>
        /\ "Document Type" \in DOMAIN rmData
        /\ rmData["Document Type"] =
              [value |-> Some("Payable Voucher"), confidence |-> Some(100)]

C14_Witness ==
    /\ rmPc = "returned"
    /\ rmDoc # None
    /\ "Document Type" \in DOMAIN rmDoc[1].fields[1]
    /\ rmData["PV Number"].value = Some("Other")
    /\ rmData["Document Type"].value = Some("Payable Voucher")

\* the value the precedence of the remap gives to field f
ClaimedValue(f) ==
    IF NonNull(f, "value_string") THEN f.value_string
    ELSE IF NonNull(f, "value_date") THEN Some("2024-01-05")
    ELSE IF NonNull(f, "content") THEN f.content
    ELSE None

(* C18: with several documents, each mapped output entry holds the value    *)
(* and confidence of the last document (in result order) that contains the  *)
(* native field, also when that one resolves to null; documents without     *)
(* the field leave the entry as it was.                                     *)
C18_LastDocumentWins ==
    rmPc \in {"loop", "returned"} =>
        \A name \in {"InvoiceId", "InvoiceDate", "RemittanceAddressRecipient"} :
            rmLast[name] # None =>
                rmData[OutputKeyOf(name)] =
                    [value |-> ClaimedValue(rmLast[name][1]),
                     confidence |-> rmLast[name][1].confidence]

C18_Witness ==
    /\ rmPc = "returned"
    /\ rmDoc # None
    /\ DOMAIN rmDoc[1].fields[1] = {"InvoiceDate"}
    /\ rmLast["InvoiceId"] # None
    /\ rmData["PV Number"] = [value |-> Some("INV-1"), confidence |-> Some(90)]
    /\ rmData["Date Prepared"] = [value |-> None, confidence |-> Some(30)]

\* requests a and b submitted the same form up to the token, and the
\* recognition service and the rendering library behaved alike for both
SameButToken(a, b) ==
    /\ req[a] # None /\ req[b] # None
    /\ req[a][1].token # req[b][1].token
    /\ req[a][1].filename = req[b][1].filename
    /\ req[a][1].file = req[b][1].file
    /\ req[a][1].metadata = req[b][1].metadata
    /\ pi[a] = pi[b]
    /\ piResult[a] = piResult[b]
    /\ renderMode[a] = renderMode[b]

(* C16: the token has no influence: two finished requests that differ only  *)
(* in the token and met the same recognition and rendering behaviour have   *)
(* the same status, error detail and envelope, and no response carries the  *)
(* token.                                                                   *)
C16_TokenIrrelevant ==
    /\ \A a, b \in Requests :
          (SameButToken(a, b) /\ pc[a] = "done" /\ pc[b] = "done") =>
              /\ status[a] = status[b]
              /\ detail[a] = detail[b]
              /\ envelope[a] = envelope[b]
    /\ \A r \in Requests :
          /\ envelope[r] # None =>
                /\ DOMAIN envelope[r][1] = {"filename", "extracted_data", "thumbnail", "metadata"}
                /\ envelope[r][1].filename # req[r][1].token
          /\ status[r] = 500 => detail[r] # req[r][1].token

C16_Witness ==
    \E a, b \in Requests :
        /\ SameButToken(a, b)
        /\ status[a] = 200 /\ status[b] = 200
        /\ envelope[a] = envelope[b]
        /\ envelope[a] # None

\* the state a handler of request r works on: its form, its position, its
\* sub-tasks with their results and its outcome
Private(r) ==
    <<req[r], pc[r], mdict[r], pi[r], piResult[r], efp[r], efpResult[r], jobResult[r],
      renderMode[r], nfinished[r], outer[r], status[r], envelope[r], detail[r]>>

\* a step that touches what belongs to request r
Touches(r) == Private(r)' # Private(r)

(* C15: whatever the number of requests in flight, at most 4 rendering jobs *)
(* execute at the same time in the executor; a submitted job that is not    *)
(* executing and has not finished waits in the executor's queue, once and   *)
(* in no worker; and the executor is the only state requests share: a step  *)
(* changes what belongs to at most one request, and a step of the executor  *)
(* that starts a job changes nothing of any request.                        *)
C15_PoolBoundsRendering ==
    /\ [](/\ Cardinality(poolRunning) <= 4
          /\ \A r \in Requests :
                (efp[r] = "waiting" /\ jobResult[r] = None) <=> JobInPool(r)
          /\ \A r \in poolRunning : r \notin Range(poolQueue)
          /\ \A i, j \in 1..Len(poolQueue) : poolQueue[i] = poolQueue[j] => i = j)
    /\ [][/\ \A a, b \in Requests : (Touches(a) /\ Touches(b)) => a = b
          /\ poolRunning' # poolRunning =>
                (\A r \in Requests : pc'[r] = pc[r] /\ status'[r] = status[r])]_vars

C15_Witness ==
    /\ Cardinality(poolRunning) = MaxWorkers
    /\ poolQueue # <<>>
    /\ \E r \in Requests : r \notin poolRunning /\ JobInPool(r)

\* the envelope of request r is complete
CompleteEnvelope(r) ==
    /\ envelope[r] # None
    /\ DOMAIN envelope[r][1] = {"filename", "extracted_data", "thumbnail", "metadata"}
    /\ envelope[r][1].filename = req[r][1].filename
    /\ envelope[r][1].extracted_data # None
    /\ envelope[r][1].metadata = mdict[r][1]

\* request r has ended with exactly one outcome
OneOutcome(r) ==
    \/ status[r] = 200 /\ CompleteEnvelope(r) /\ detail[r] = ""
    \/ status[r] = 500 /\ envelope[r] = None /\ detail[r] # ""

(* C17: when every recognition call and every rendering job terminates,    *)
(* every accepted request eventually ends, and ends with exactly one        *)
(* outcome: a complete HTTP 200 envelope or an HTTP 500 error, never both,  *)
(* nothing before it ends and nothing changed after it; this also holds     *)
(* when one request more than the executor has workers is in flight.        *)
(* (A request is never withdrawn, so "eventually every request is either    *)
(* not accepted or ended, for ever" says that each accepted one ends.)      *)
C17_EveryRequestEndsOnce ==
    /\ [](\A r \in Requests :
             IF pc[r] = "done"
             THEN OneOutcome(r)
             ELSE status[r] = 0 /\ envelope[r] = None /\ detail[r] = "")
    /\ [][\A r \in Requests :
             pc[r] = "done" =>
                 /\ pc'[r] = "done"
                 /\ status'[r] = status[r]
                 /\ envelope'[r] = envelope[r]
                 /\ detail'[r] = detail[r]]_vars
    /\ [][\A r \in Requests : pc[r] # "absent" => pc'[r] # "absent"]_vars
    /\ <>[](\A r \in Requests : pc[r] \in {"absent", "done"})

C17_Witness ==
    /\ Cardinality(scenario.requests) > MaxWorkers
    /\ \A r \in scenario.requests : pc[r] = "done" /\ OneOutcome(r)
    /\ Cardinality({r \in scenario.requests : status[r] = 200 /\ efp[r] = "returned"}) > MaxWorkers

====
